---- MODULE Spec2Model ----
(***************************************************************************)
(* Model of package logit (src/logit/logit.go): a slog.Handler that pipes  *)
(* the output of a nested JSON handler through a shared buffer guarded by  *)
(* a shared mutex, decodes it and prints one colourised line per record.   *)
(*                                                                         *)
(* Byte strings are modelled at the level of JSON lexemes: a buffer is a   *)
(* sequence of tokens.  Integers are kept exact as two limbs <<hi, lo>> in *)
(* base 2^27 so that the int64 -> float64 conversion done by json.Unmarshal*)
(* into map[string]any can be modelled on real 2^53-sized values.          *)
(***************************************************************************)
EXTENDS Integers, Sequences, FiniteSets, TLC

\* ------------------------------------------------------------------ bounds
NProcs == 2          \* goroutines calling the handler concurrently
MaxHandlers == 2     \* root handler plus handlers derived from it
MaxCalls == 2        \* Handle calls started in one behaviour

\* ------------------------------------------------- constants of the source
reset == "\\033[0m"
red == 31
yellow == 33
blue == 34
lightGray == 37
darkGray == 90
lightGreen == 92
white == 97

\* slog's level constants, as used by the switch of Handle
LevelDebug == 0 - 4
LevelInfo == 0
LevelWarn == 4
LevelError == 8

\* slog's keys of the built-in attributes, as compared by emitDefaults
TimeKey == "time"
LevelKey == "level"
MessageKey == "msg"

\* ------------------------------------------------------------------ values
Limb == 134217728                 \* 2^27: base of the two-limb integers
Half53 == 67108864                \* 2^26: hi limb of 2^53

\* A value, and a token of a byte string, is a record of one shape: t is the
\* kind, <<hi, lo>> a number, s a string, m the members of an object.
EmptyMap == <<>>
Num(hi, lo) == [t |-> "num", hi |-> hi, lo |-> lo, s |-> "", m |-> EmptyMap]
Str(s) == [t |-> "str", hi |-> 0, lo |-> 0, s |-> s, m |-> EmptyMap]
Obj(m) == [t |-> "obj", hi |-> 0, lo |-> 0, s |-> "", m |-> m]
Tok(k) == [t |-> k, hi |-> 0, lo |-> 0, s |-> "", m |-> EmptyMap]
Attr(k, v) == [key |-> k, val |-> v]
EmptyAttr == [key |-> "", val |-> Tok("nil")]
isEmpty(a) == a.key = "" /\ a.val.t = "nil"

\* ------------------------------------------------------------------ tokens
LBrace == Tok("{")
RBrace == Tok("}")
Comma == Tok(",")
Colon == Tok(":")
NL == Tok("nl")
SP == Tok("sp")
isWS(tok) == tok.t \in {"nl", "sp"}

\* a piece of literal text inside a string
Txt(s) == [t |-> "txt", hi |-> 0, lo |-> 0, s |-> s, m |-> EmptyMap]

\* withColor applies given color to a string (a string is a token sequence)
withColor(code, s) ==
    <<Txt("\\033["), Txt(ToString(code)), Txt("m")>> \o s \o <<Txt(reset)>>

\* slog.Level.String(): the name of the band the level is in and its offset
LevelString(l) ==
    LET str(base, val) ==
            IF val = 0 THEN <<Txt(base)>>
            ELSE IF val > 0 THEN <<Txt(base), Txt("+"), Txt(ToString(val))>>
            ELSE <<Txt(base), Txt("-"), Txt(ToString(0 - val))>>
    IN  IF l < LevelInfo THEN str("DEBUG", l - LevelDebug)
        ELSE IF l < LevelWarn THEN str("INFO", l - LevelInfo)
        ELSE IF l < LevelError THEN str("WARN", l - LevelWarn)
        ELSE str("ERROR", l - LevelError)

\* (mutant) the switch of Handle with the cases of warn and error swapped
LevelTagSwapped(l) ==
    LET level == LevelString(l) \o <<Txt(":")>>
    IN  IF l = LevelInfo THEN withColor(lightGreen, level)
        ELSE IF l = LevelDebug THEN withColor(blue, level)
        ELSE IF l = LevelWarn THEN withColor(red, level)
        ELSE IF l = LevelError THEN withColor(yellow, level)
        ELSE level

\* the severity tag computed at the head of Handle
LevelTag(l) ==
    LET level == LevelString(l) \o <<Txt(":")>>
    IN  IF l = LevelInfo THEN withColor(lightGreen, level)
        ELSE IF l = LevelDebug THEN withColor(blue, level)
        ELSE IF l = LevelWarn THEN withColor(yellow, level)
        ELSE IF l = LevelError THEN withColor(red, level)
        ELSE level

\* n printed in w decimal digits, zero padded
RECURSIVE Digits(_, _)
Digits(n, w) ==
    IF w = 0 THEN <<>> ELSE Digits(n \div 10, w - 1) \o <<Txt(ToString(n % 10))>>

\* r.Time.Format(timeFormat) of an instant t milliseconds after midnight
TimeFormat(t) ==
    <<Txt("[")>> \o Digits(t \div 3600000, 2) \o <<Txt(":")>>
                \o Digits((t \div 60000) % 60, 2) \o <<Txt(":")>>
                \o Digits((t \div 1000) % 60, 2) \o <<Txt(".")>>
                \o Digits(t % 1000, 3) \o <<Txt("]")>>

\* fmt.Println of four operands: single spaces between, a newline after
Println(a, b, c, d) ==
    a \o <<Txt(" ")>> \o b \o <<Txt(" ")>> \o c \o <<Txt(" ")>> \o d
      \o <<Txt("\\n")>>

\* emitDefaults with next = nil: drops the attributes keyed time, level, msg
emitDefaults(a) ==
    IF a.key = TimeKey \/ a.key = LevelKey \/ a.key = MessageKey
    THEN EmptyAttr
    ELSE a

\* ------------------------------------------------- the nested JSON handler
\* handleState.appendAttr: ReplaceAttr, skip of the empty Attr, separator
appendAttr(st, a) ==
    LET b == emitDefaults(a)
    IN  IF isEmpty(b) THEN st
        ELSE [buf |-> st.buf \o (IF st.sep THEN <<Comma>> ELSE <<>>)
                              \o <<Str(b.key), Colon, b.val>>,
              sep |-> TRUE]

RECURSIVE appendAttrs(_, _)
appendAttrs(st, as) ==
    IF as = <<>> THEN st
    ELSE appendAttrs(appendAttr(st, Head(as)), Tail(as))

\* handleState.openGroups: one `"name":{` per group not yet opened
RECURSIVE openGroups(_, _)
openGroups(st, gs) ==
    IF gs = <<>> THEN st
    ELSE openGroups([buf |-> st.buf \o (IF st.sep THEN <<Comma>> ELSE <<>>)
                                  \o <<Str(Head(gs)), Colon, LBrace>>,
                     sep |-> FALSE], Tail(gs))

\* the built-in attributes the JSON handler offers to ReplaceAttr first
Builtins(r) ==
    (IF r.time = 0 THEN <<>> ELSE <<Attr(TimeKey, Num(0, r.time))>>)
    \o <<Attr(LevelKey, Str("level")), Attr(MessageKey, Str(r.msg))>>

\* slog.NewJSONHandler(buffer, {Level: level, ReplaceAttr: emitDefaults(nil)})
NewJSONHandler(w, level) ==
    [w |-> w, level |-> level, pre |-> <<>>, groups |-> <<>>, nOpen |-> 0]

\* child.Enabled
ChildEnabled(c, l) == l >= c.level

\* child.WithAttrs: the attributes are preformatted, inside the open groups
ChildWithAttrs(c, as) ==
    LET st0 == [buf |-> c.pre, sep |-> Len(c.pre) > 0]
        st1 == openGroups(st0, SubSeq(c.groups, c.nOpen + 1, Len(c.groups)))
        st2 == appendAttrs(st1, as)
    IN  IF as = <<>> THEN c
        ELSE [c EXCEPT !.pre = st2.buf, !.nOpen = Len(c.groups)]

\* child.WithGroup
ChildWithGroup(c, name) ==
    IF name = "" THEN c ELSE [c EXCEPT !.groups = Append(c.groups, name)]

\* the bytes child.Handle writes for record r: one JSON object and a newline
ChildBytes(c, r) ==
    LET st0 == [buf |-> <<LBrace>>, sep |-> FALSE]
        st1 == appendAttrs(st0, Builtins(r))
        st2 == IF Len(c.pre) > 0
               THEN [buf |-> st1.buf \o (IF st1.sep THEN <<Comma>> ELSE <<>>)
                                     \o c.pre,
                     sep |-> TRUE]
               ELSE st1
        has == Len(r.attrs) > 0
        st3 == IF has
               THEN appendAttrs(
                      openGroups(st2, SubSeq(c.groups, c.nOpen + 1,
                                             Len(c.groups))),
                      r.attrs)
               ELSE st2
        nOpenGroups == IF has THEN Len(c.groups) ELSE c.nOpen
    IN  st3.buf \o [i \in 1..nOpenGroups |-> RBrace] \o <<RBrace, NL>>

\* ----------------------------------------------------------- encoding/json
\* int64 -> float64 (round to nearest, ties to even) for 0 <= n < 2^54
ToFloat64(v) ==
    IF v.t # "num" \/ v.hi < Half53 \/ v.lo % 2 = 0 THEN v
    ELSE LET lo == IF (v.lo - 1) % 4 = 0 THEN v.lo - 1 ELSE v.lo + 1
         IN  IF lo = Limb THEN Num(v.hi + 1, 0) ELSE Num(v.hi, lo)

RECURSIVE SkipWS(_, _)
SkipWS(t, i) == IF i <= Len(t) /\ isWS(t[i]) THEN SkipWS(t, i + 1) ELSE i

ParseFail == [ok |-> FALSE, val |-> Tok("nil"), next |-> 0]

\* the decoder of json.Unmarshal into an interface value: objects become
\* map[string]any (a later duplicate key overwrites), numbers float64.
\* (Intermediate results are bound by a set constructor, { e : x \in {v} },
\* which makes TLC evaluate them once.)
RECURSIVE ParseValue(_, _), ParseMembers(_, _, _)
ParseValue(t, i0) ==
    CHOOSE y \in
      { IF i > Len(t) THEN ParseFail
        ELSE IF t[i].t = "{"
        THEN CHOOSE z \in
               { IF k <= Len(t) /\ t[k].t = "}"
                 THEN [ok |-> TRUE, val |-> Obj(EmptyMap), next |-> k + 1]
                 ELSE ParseMembers(t, k, EmptyMap) : k \in {SkipWS(t, i + 1)} }
               : TRUE
        ELSE IF t[i].t \in {"num", "str"}
        THEN [ok |-> TRUE, val |-> ToFloat64(t[i]), next |-> i + 1]
        ELSE ParseFail : i \in {SkipWS(t, i0)} } : TRUE

ParseMembers(t, i, m) ==
    CHOOSE y \in
      { IF i > Len(t) \/ t[i].t # "str" \/ c > Len(t) \/ t[c].t # ":"
        THEN ParseFail
        ELSE CHOOSE z \in
               { IF ~v.ok THEN ParseFail
                 ELSE CHOOSE x \in
                        { IF n > Len(t) THEN ParseFail
                          ELSE IF t[n].t = ","
                          THEN ParseMembers(t, SkipWS(t, n + 1),
                                            (t[i].s :> v.val) @@ m)
                          ELSE IF t[n].t = "}"
                          THEN [ok |-> TRUE,
                                val |-> Obj((t[i].s :> v.val) @@ m),
                                next |-> n + 1]
                          ELSE ParseFail : n \in {SkipWS(t, v.next)} } : TRUE
                 : v \in {ParseValue(t, c + 1)} } : TRUE
        : c \in {SkipWS(t, i + 1)} } : TRUE

\* json.Unmarshal(data, &map[string]any): err is "" on success
Unmarshal(data) ==
    CHOOSE y \in
      { IF SkipWS(data, 1) > Len(data)
        THEN [err |-> "json.SyntaxError", val |-> EmptyMap]
        ELSE IF ~v.ok \/ SkipWS(data, v.next) <= Len(data)
        THEN [err |-> "json.SyntaxError", val |-> EmptyMap]
        ELSE IF v.val.t # "obj"
        THEN [err |-> "json.UnmarshalTypeError", val |-> EmptyMap]
        ELSE [err |-> "", val |-> v.val.m] : v \in {ParseValue(data, 1)} }
      : TRUE

\* the keys of the model in the byte order json.Marshal sorts map keys by
SortedKeys == <<"a", "g", "id", "msg", "n", "svc">>

Indent(n) == [i \in 1..n |-> SP]

\* json.MarshalIndent(v, "", " ") of a decoded value at nesting depth d
RECURSIVE MarshalValue(_, _), MarshalMembers(_, _, _, _)
MarshalValue(v, d) ==
    IF v.t # "obj" THEN <<v>>
    ELSE IF DOMAIN v.m = {} THEN <<LBrace, RBrace>>
    ELSE <<LBrace>> \o MarshalMembers(v.m, d + 1, 1, FALSE)
                   \o <<NL>> \o Indent(d) \o <<RBrace>>

MarshalMembers(m, d, k, sep) ==
    IF k > Len(SortedKeys) THEN <<>>
    ELSE IF SortedKeys[k] \notin DOMAIN m THEN MarshalMembers(m, d, k + 1, sep)
    ELSE (IF sep THEN <<Comma>> ELSE <<>>) \o <<NL>> \o Indent(d)
         \o <<Str(SortedKeys[k]), Colon, SP>> \o MarshalValue(m[SortedKeys[k]], d)
         \o MarshalMembers(m, d, k + 1, TRUE)

MarshalIndent(m) == MarshalValue(Obj(m), 0)

\* --------------------------------------------------------------- the state
VARIABLES
    threshold,   \* the level NewHandler was called with
    handlers,    \* the Handler values built so far; handlers[1] is the root
    buffer,      \* the bytes.Buffer objects: buffer[b] is the content of b
    mut,         \* the sync.Mutex objects: mut[m] is TRUE while m is locked
    pc,          \* where each goroutine is
    hnd,         \* Handle: the receiver h of the running call
    rec,         \* Handle: the record r of the running call
    level,       \* Handle: the local variable level (the severity tag)
    childAttrs,  \* Handle: the local variable childAttrs
    res,         \* the error value the Handle call of the goroutine returns
    enabled,     \* the value the last call of Enabled returned
    call,        \* the number of the goroutine's running Handle call
    ncalls,      \* Handle calls started so far
    out,         \* standard output: the lines printed, each with its call
    nreset,      \* how often the running call has reset the buffer
    acq          \* the calls in the order in which they acquired the lock

vars == <<threshold, handlers, buffer, mut, pc, hnd, rec, level, childAttrs,
          res, enabled, call, ncalls, out, nreset, acq>>

Procs == 1..NProcs

\* the thresholds NewHandler is called with
Thresholds == {LevelDebug, LevelWarn}

\* the levels Enabled is asked about
Levels == {LevelDebug - 1, LevelDebug, LevelInfo, LevelWarn, LevelError}

\* the instant of a record, in milliseconds since midnight; 0 is the zero Time
BigInt == Num(Half53, 1)          \* 2^53 + 1

\* the records Handle is called with
Records ==
    { [level |-> LevelDebug, time |-> 0, msg |-> "m1", attrs |-> <<>>],
      [level |-> LevelInfo, time |-> 45296789, msg |-> "m2",
       attrs |-> <<Attr("a", Num(0, 1))>>],
      [level |-> LevelWarn, time |-> 45296789, msg |-> "m1",
       attrs |-> <<Attr("a", Str("x")), Attr(MessageKey, Str("y"))>>],
      [level |-> LevelError, time |-> 45296789, msg |-> "m2",
       attrs |-> <<Attr("n", BigInt)>>],
      [level |-> LevelInfo + 2, time |-> 45296789, msg |-> "m1",
       attrs |-> <<Attr("id", Num(0, 7)), Attr("a", Str("y"))>>] }

\* the arguments of WithAttrs and WithGroup
AttrLists == {<<Attr("svc", Str("x"))>>}
GroupNames == {"g"}

NoRec == [level |-> 0, time |-> 0, msg |-> "", attrs |-> <<>>]
NoErr == <<>>

\* (mutant) NewHandler that does not pass the level on to the JSON handler,
\* which then takes its default, LevelInfo
NewHandlerDefaultLevel(lvl) ==
    [child |-> NewJSONHandler(1, LevelInfo), buffer |-> 1, mut |-> 1]

\* NewHandler: one fresh buffer, one fresh mutex, the JSON handler as child
NewHandler(lvl) ==
    [child |-> NewJSONHandler(1, lvl), buffer |-> 1, mut |-> 1]

Init ==
    /\ threshold \in Thresholds
    /\ handlers = <<NewHandler(threshold)>>
    /\ buffer = <<(<<>>)>>
    /\ mut = <<FALSE>>
    /\ pc = [p \in Procs |-> "idle"]
    /\ hnd = [p \in Procs |-> 0]
    /\ rec = [p \in Procs |-> NoRec]
    /\ level = [p \in Procs |-> <<>>]
    /\ childAttrs = [p \in Procs |-> EmptyMap]
    /\ res = [p \in Procs |-> NoErr]
    /\ enabled = "none"
    /\ call = [p \in Procs |-> 0]
    /\ ncalls = 0
    /\ out = <<>>
    /\ nreset = [p \in Procs |-> 0]
    /\ acq = <<>>

\* ------------------------------------------------------------- operations
ChildErr == "sink unavailable"

\* fmt.Errorf(prefix + ": %w", err)
Wrap(prefix, err) == <<prefix, err>>
ErrChild == "cannot handle child's attributes"
ErrDecode == "cannot unmarshall from buffer to map"

\* Enabled: delegates to the child
Enabled(p, h, l) ==
    /\ pc[p] = "idle"
    /\ enabled' = IF ChildEnabled(handlers[h].child, l) THEN "true" ELSE "false"
    /\ UNCHANGED <<threshold, handlers, buffer, mut, pc, hnd, rec, level,
                   childAttrs, res, call, ncalls, out, nreset, acq>>

\* (mutant) WithAttrs that gives the new handler a mutex of its own
HandlerWithAttrsOwnMutex(h, as) ==
    [child |-> ChildWithAttrs(h.child, as), buffer |-> h.buffer,
     mut |-> h.mut + 1]

\* the Handler value WithAttrs returns
HandlerWithAttrs(h, as) ==
    [child |-> ChildWithAttrs(h.child, as), buffer |-> h.buffer, mut |-> h.mut]

\* the Handler value WithGroup returns
HandlerWithGroup(h, name) ==
    [child |-> ChildWithGroup(h.child, name), buffer |-> h.buffer,
     mut |-> h.mut]

\* (mutant) WithAttrs that adds the attributes to the receiver's child and
\* returns a copy of the receiver
WithAttrsInPlace(p, h, as) ==
    /\ pc[p] = "idle"
    /\ Len(handlers) < MaxHandlers
    /\ handlers' = Append([handlers EXCEPT ![h] = HandlerWithAttrs(@, as)],
                          HandlerWithAttrs(handlers[h], as))
    /\ UNCHANGED <<threshold, buffer, mut, pc, hnd, rec, level, childAttrs,
                   res, call, ncalls, out, enabled, nreset, acq>>

WithAttrs(p, h, as) ==
    /\ pc[p] = "idle"
    /\ Len(handlers) < MaxHandlers
    /\ handlers' = Append(handlers, HandlerWithAttrs(handlers[h], as))
    /\ UNCHANGED <<threshold, buffer, mut, pc, hnd, rec, level, childAttrs,
                   res, call, ncalls, out, enabled, nreset, acq>>

\* (mutant) WithGroup that takes the shared lock while it builds the handler
WithGroupLocked(p, h, name) ==
    /\ pc[p] = "idle"
    /\ ~mut[handlers[h].mut]
    /\ Len(handlers) < MaxHandlers
    /\ handlers' = Append(handlers, HandlerWithGroup(handlers[h], name))
    /\ UNCHANGED <<threshold, buffer, mut, pc, hnd, rec, level, childAttrs,
                   res, call, ncalls, out, enabled, nreset, acq>>

WithGroup(p, h, name) ==
    /\ pc[p] = "idle"
    /\ Len(handlers) < MaxHandlers
    /\ handlers' = Append(handlers, HandlerWithGroup(handlers[h], name))
    /\ UNCHANGED <<threshold, buffer, mut, pc, hnd, rec, level, childAttrs,
                   res, call, ncalls, out, enabled, nreset, acq>>

\* Handle, lines 67-77: the severity tag; then the call of extractChildAttrs
HandleCall(p, h, r) ==
    /\ pc[p] = "idle"
    /\ ncalls < MaxCalls
    /\ ncalls' = ncalls + 1
    /\ call' = [call EXCEPT ![p] = ncalls + 1]
    /\ hnd' = [hnd EXCEPT ![p] = h]
    /\ rec' = [rec EXCEPT ![p] = r]
    /\ level' = [level EXCEPT ![p] = LevelTag(r.level)]
    /\ res' = [res EXCEPT ![p] = NoErr]
    /\ pc' = [pc EXCEPT ![p] = "lock"]
    /\ nreset' = [nreset EXCEPT ![p] = 0]
    /\ UNCHANGED <<threshold, handlers, buffer, mut, childAttrs, out, enabled, acq>>

\* (mutant) Lock that does not wait for the mutex to be free
LockNoWait(p) ==
    /\ pc[p] = "lock"
    /\ mut' = [mut EXCEPT ![handlers[hnd[p]].mut] = TRUE]
    /\ pc' = [pc EXCEPT ![p] = "child"]
    /\ acq' = Append(acq, call[p])
    /\ UNCHANGED <<threshold, handlers, buffer, hnd, rec, level, childAttrs,
                   res, call, ncalls, out, enabled, nreset>>

\* extractChildAttrs: h.mut.Lock()
Lock(p) ==
    /\ pc[p] = "lock"
    /\ ~mut[handlers[hnd[p]].mut]
    /\ mut' = [mut EXCEPT ![handlers[hnd[p]].mut] = TRUE]
    /\ pc' = [pc EXCEPT ![p] = "child"]
    /\ acq' = Append(acq, call[p])
    /\ UNCHANGED <<threshold, handlers, buffer, hnd, rec, level, childAttrs,
                   res, call, ncalls, out, enabled, nreset>>

\* extractChildAttrs: h.child.Handle(ctx, r) of the JSON handler returns nil
ChildHandle(p) ==
    /\ pc[p] = "child"
    /\ LET c == handlers[hnd[p]].child
       IN  buffer' = [buffer EXCEPT ![c.w] = @ \o ChildBytes(c, rec[p])]
    /\ pc' = [pc EXCEPT ![p] = "decode"]
    /\ UNCHANGED <<threshold, handlers, mut, hnd, rec, level, childAttrs,
                   res, call, ncalls, out, enabled, nreset, acq>>

\* how much of its output b a failing child has written: nothing, the
\* opening brace, or all of it
FailCuts(b) == {0, 1, Len(b)}

\* what a child that fails silently has written: nothing, or the opening brace
MalformedCuts(b) == {0, 1}

\* (mutant) the early return on the child's error unlocks without running
\* the deferred reset
ChildHandleFailNoReset(p) ==
    /\ pc[p] = "child"
    /\ LET c == handlers[hnd[p]].child
       IN  \E n \in FailCuts(ChildBytes(c, rec[p])) :
             buffer' = [buffer EXCEPT
                          ![c.w] = @ \o SubSeq(ChildBytes(c, rec[p]), 1, n)]
    /\ res' = [res EXCEPT ![p] = Wrap(ErrChild, ChildErr)]
    /\ mut' = [mut EXCEPT ![handlers[hnd[p]].mut] = FALSE]
    /\ pc' = [pc EXCEPT ![p] = "done"]
    /\ UNCHANGED <<threshold, handlers, hnd, rec, level, childAttrs,
                   call, ncalls, out, enabled, nreset, acq>>

\* extractChildAttrs: h.child.Handle returns an error, having written the
\* first n bytes of its output
ChildHandleFail(p) ==
    /\ pc[p] = "child"
    /\ LET c == handlers[hnd[p]].child
       IN  \E n \in FailCuts(ChildBytes(c, rec[p])) :
             buffer' = [buffer EXCEPT
                          ![c.w] = @ \o SubSeq(ChildBytes(c, rec[p]), 1, n)]
    /\ res' = [res EXCEPT ![p] = Wrap(ErrChild, ChildErr)]
    /\ pc' = [pc EXCEPT ![p] = "defer"]
    /\ UNCHANGED <<threshold, handlers, mut, hnd, rec, level, childAttrs,
                   call, ncalls, out, enabled, nreset, acq>>

\* extractChildAttrs: h.child.Handle returns nil, having written bytes that
\* are no JSON object (nothing, or an object cut short)
ChildHandleMalformed(p) ==
    /\ pc[p] = "child"
    /\ LET c == handlers[hnd[p]].child
       IN  \E n \in MalformedCuts(ChildBytes(c, rec[p])) :
             buffer' = [buffer EXCEPT
                          ![c.w] = @ \o SubSeq(ChildBytes(c, rec[p]), 1, n)]
    /\ pc' = [pc EXCEPT ![p] = "decode"]
    /\ UNCHANGED <<threshold, handlers, mut, hnd, rec, level, childAttrs,
                   res, call, ncalls, out, enabled, nreset, acq>>

\* (mutant) the error of json.Unmarshal is dropped
DecodeIgnoreErr(p) ==
    /\ pc[p] = "decode"
    /\ childAttrs' = [childAttrs EXCEPT
                        ![p] = Unmarshal(buffer[handlers[hnd[p]].buffer]).val]
    /\ pc' = [pc EXCEPT ![p] = "defer"]
    /\ UNCHANGED <<threshold, handlers, buffer, mut, hnd, rec, level, res,
                   call, ncalls, out, enabled, nreset, acq>>

\* extractChildAttrs: json.Unmarshal(h.buffer.Bytes(), &childAttrs)
Decode(p) ==
    /\ pc[p] = "decode"
    /\ \E u \in {Unmarshal(buffer[handlers[hnd[p]].buffer])} :
          IF u.err = ""
          THEN /\ childAttrs' = [childAttrs EXCEPT ![p] = u.val]
               /\ res' = res
          ELSE /\ childAttrs' = childAttrs
               /\ res' = [res EXCEPT ![p] = Wrap(ErrDecode, u.err)]
    /\ pc' = [pc EXCEPT ![p] = "defer"]
    /\ UNCHANGED <<threshold, handlers, buffer, mut, hnd, rec, level, call,
                   ncalls, out, enabled, nreset, acq>>

\* the line Handle prints for record r with tag lvl and attributes m
Line(r, lvl, m) ==
    Println(withColor(lightGray, TimeFormat(r.time)), lvl,
            withColor(white, <<Txt(r.msg)>>),
            withColor(darkGray, MarshalIndent(m)))

\* (mutant) the line is printed by the deferred function's caller while it
\* still holds the lock, before the reset and the unlock
DeferredPrintLocked(p) ==
    /\ pc[p] = "defer"
    /\ out' = IF res[p] = NoErr
              THEN Append(out, [call |-> call[p],
                                line |-> Line(rec[p], level[p], childAttrs[p])])
              ELSE out
    /\ buffer' = [buffer EXCEPT ![handlers[hnd[p]].buffer] = <<>>]
    /\ mut' = [mut EXCEPT ![handlers[hnd[p]].mut] = FALSE]
    /\ pc' = [pc EXCEPT ![p] = "done"]
    /\ nreset' = [nreset EXCEPT ![p] = @ + 1]
    /\ UNCHANGED <<threshold, handlers, hnd, rec, level, childAttrs, res,
                   call, ncalls, enabled, acq>>

\* (mutant) the deferred function unlocks and leaves the buffer as it is
DeferredNoReset(p) ==
    /\ pc[p] = "defer"
    /\ mut' = [mut EXCEPT ![handlers[hnd[p]].mut] = FALSE]
    /\ pc' = [pc EXCEPT ![p] = IF res[p] = NoErr THEN "print" ELSE "done"]
    /\ nreset' = [nreset EXCEPT ![p] = @ + 1]
    /\ UNCHANGED <<threshold, handlers, buffer, hnd, rec, level, childAttrs,
                   res, call, ncalls, out, enabled, acq>>

\* (mutant) Handle goes on to print although extractChildAttrs failed
DeferredThenPrint(p) ==
    /\ pc[p] = "defer"
    /\ buffer' = [buffer EXCEPT ![handlers[hnd[p]].buffer] = <<>>]
    /\ mut' = [mut EXCEPT ![handlers[hnd[p]].mut] = FALSE]
    /\ pc' = [pc EXCEPT ![p] = "print"]
    /\ nreset' = [nreset EXCEPT ![p] = @ + 1]
    /\ UNCHANGED <<threshold, handlers, hnd, rec, level, childAttrs, res,
                   call, ncalls, out, enabled, acq>>

\* (mutant) the buffer is reset on the successful return only
DeferredResetOnSuccess(p) ==
    /\ pc[p] = "defer"
    /\ buffer' = IF res[p] = NoErr
                 THEN [buffer EXCEPT ![handlers[hnd[p]].buffer] = <<>>]
                 ELSE buffer
    /\ mut' = [mut EXCEPT ![handlers[hnd[p]].mut] = FALSE]
    /\ pc' = [pc EXCEPT ![p] = IF res[p] = NoErr THEN "print" ELSE "done"]
    /\ nreset' = [nreset EXCEPT ![p] = IF res[p] = NoErr THEN @ + 1 ELSE @]
    /\ UNCHANGED <<threshold, handlers, hnd, rec, level, childAttrs, res,
                   call, ncalls, out, enabled, acq>>

\* (mutant) the lock is released on the successful return only
DeferredUnlockOnSuccess(p) ==
    /\ pc[p] = "defer"
    /\ buffer' = [buffer EXCEPT ![handlers[hnd[p]].buffer] = <<>>]
    /\ mut' = IF res[p] = NoErr
              THEN [mut EXCEPT ![handlers[hnd[p]].mut] = FALSE]
              ELSE mut
    /\ pc' = [pc EXCEPT ![p] = IF res[p] = NoErr THEN "print" ELSE "done"]
    /\ nreset' = [nreset EXCEPT ![p] = @ + 1]
    /\ UNCHANGED <<threshold, handlers, hnd, rec, level, childAttrs, res,
                   call, ncalls, out, enabled, acq>>

\* extractChildAttrs: the deferred function, run on every return:
\* h.buffer.Reset(); h.mut.Unlock().  Handle then returns err if it is set.
Deferred(p) ==
    /\ pc[p] = "defer"
    /\ buffer' = [buffer EXCEPT ![handlers[hnd[p]].buffer] = <<>>]
    /\ mut' = [mut EXCEPT ![handlers[hnd[p]].mut] = FALSE]
    /\ pc' = [pc EXCEPT ![p] = IF res[p] = NoErr THEN "print" ELSE "done"]
    /\ nreset' = [nreset EXCEPT ![p] = @ + 1]
    /\ UNCHANGED <<threshold, handlers, hnd, rec, level, childAttrs, res,
                   call, ncalls, out, enabled, acq>>

\* (mutant) the line is put in front of the lines already on the output
PrintLineFirst(p) ==
    /\ pc[p] = "print"
    /\ out' = <<[call |-> call[p],
                 line |-> Line(rec[p], level[p], childAttrs[p])]>> \o out
    /\ pc' = [pc EXCEPT ![p] = "done"]
    /\ UNCHANGED <<threshold, handlers, buffer, mut, hnd, rec, level,
                   childAttrs, res, enabled, call, ncalls, nreset, acq>>

\* Handle, lines 84-91: json.MarshalIndent, fmt.Println, return nil
PrintLine(p) ==
    /\ pc[p] = "print"
    /\ out' = Append(out, [call |-> call[p],
                           line |-> Line(rec[p], level[p], childAttrs[p])])
    /\ pc' = [pc EXCEPT ![p] = "done"]
    /\ UNCHANGED <<threshold, handlers, buffer, mut, hnd, rec, level,
                   childAttrs, res, enabled, call, ncalls, nreset, acq>>

\* the caller takes the returned value; the locals of the call are gone
Return(p) ==
    /\ pc[p] = "done"
    /\ pc' = [pc EXCEPT ![p] = "idle"]
    /\ hnd' = [hnd EXCEPT ![p] = 0]
    /\ rec' = [rec EXCEPT ![p] = NoRec]
    /\ level' = [level EXCEPT ![p] = <<>>]
    /\ childAttrs' = [childAttrs EXCEPT ![p] = EmptyMap]
    /\ res' = [res EXCEPT ![p] = NoErr]
    /\ call' = [call EXCEPT ![p] = 0]
    /\ nreset' = [nreset EXCEPT ![p] = 0]
    /\ UNCHANGED <<threshold, handlers, buffer, mut, ncalls, out, enabled, acq>>

HandlerIds == 1..Len(handlers)

\* the program as NewHandler builds it: the child is the JSON handler
Next ==
    \/ \E p \in Procs, h \in HandlerIds, l \in Levels : Enabled(p, h, l)
    \/ \E p \in Procs, h \in HandlerIds, as \in AttrLists : WithAttrs(p, h, as)
    \/ \E p \in Procs, h \in HandlerIds, g \in GroupNames : WithGroup(p, h, g)
    \/ \E p \in Procs, h \in HandlerIds, r \in Records : HandleCall(p, h, r)
    \/ \E p \in Procs : Lock(p)
    \/ \E p \in Procs : ChildHandle(p)
    \/ \E p \in Procs : Decode(p)
    \/ \E p \in Procs : Deferred(p)
    \/ \E p \in Procs : PrintLine(p)
    \/ \E p \in Procs : Return(p)

Spec == Init /\ [][Next]_vars

\* the same program with a child that may fail, as the slog.Handler interface
\* the field child is declared with allows
FaultNext ==
    \/ Next
    \/ \E p \in Procs : ChildHandleFail(p)
    \/ \E p \in Procs : ChildHandleMalformed(p)

FaultSpec == Init /\ [][FaultNext]_vars

\* The same program under the scheduling of the Go runtime: a runnable
\* goroutine is eventually run, and sync.Mutex hands the lock to a waiter
\* that has starved (starvation mode), so a Lock that can succeed again and
\* again eventually does.  Whether a caller calls again is left open.
\* The behaviours are those of Handle on the root and on handlers derived
\* with WithGroup, for two of the records.
LiveRecords == {r \in Records : r.level \in {LevelDebug, LevelInfo}}

\* the steps of a running Handle call that do not wait for anything
Step(p) ==
    \/ ChildHandle(p) \/ ChildHandleFail(p) \/ ChildHandleMalformed(p)
    \/ Decode(p) \/ Deferred(p) \/ PrintLine(p) \/ Return(p)

LiveInit == Init /\ threshold = LevelDebug

LiveNext ==
    \/ \E p \in Procs, h \in HandlerIds, g \in GroupNames : WithGroup(p, h, g)
    \/ \E p \in Procs, h \in HandlerIds, r \in LiveRecords :
          HandleCall(p, h, r)
    \/ \E p \in Procs : Lock(p)
    \/ \E p \in Procs : Step(p)

Fairness == \A p \in Procs : SF_vars(Lock(p)) /\ WF_vars(Step(p))

LiveSpec == LiveInit /\ [][LiveNext]_vars /\ Fairness

\* ---------------------------------------------------------------- helpers
\* p is between h.mut.Lock() and h.mut.Unlock()
InCS(p) == pc[p] \in {"child", "decode", "defer"}

\* the bytes the child of p's handler writes for p's record
OwnBytes(p) == ChildBytes(handlers[hnd[p]].child, rec[p])

\* the buffer and the mutex p's handler points to
BufOf(p) == handlers[hnd[p]].buffer
MutOf(p) == handlers[hnd[p]].mut

\* the lines on standard output printed by call c
LinesOf(c) == {i \in 1..Len(out) : out[i].call = c}

IsPrefix(a, b) == Len(a) <= Len(b) /\ a = SubSeq(b, 1, Len(a))

\* ------------------------------------------------------------------ claims

\* C1: with any number of concurrent Handle calls on handlers sharing one
\* buffer and lock, what a call decodes is exactly what its own child.Handle
\* wrote: while the call is about to decode, the buffer holds bytes of its own
\* record only; the mapping it decoded, and the line it printed, are those of
\* its own record; and no call has more than one line.
C1_NoCrossContamination ==
    /\ \A p \in Procs :
          /\ pc[p] = "decode" => IsPrefix(buffer[BufOf(p)], OwnBytes(p))
          /\ (pc[p] \in {"defer", "print", "done"} /\ res[p] = NoErr)
                => childAttrs[p] = Unmarshal(OwnBytes(p)).val
          /\ (pc[p] = "done" /\ res[p] = NoErr)
                => \A i \in LinesOf(call[p]) :
                      out[i].line = Line(rec[p], level[p],
                                         Unmarshal(OwnBytes(p)).val)
    /\ \A i, j \in 1..Len(out) : out[i].call = out[j].call => i = j

\* C1 witness: a call has decoded its record while a call with another
\* record waits for the same lock
C1_Witness ==
    \E p, q \in Procs :
        /\ pc[p] = "defer" /\ res[p] = NoErr /\ childAttrs[p] # EmptyMap
        /\ pc[q] = "lock" /\ MutOf(q) = MutOf(p)
        /\ rec[q] # rec[p] /\ rec[q].attrs # <<>>

\* the error Handle returns when child.Handle has failed
ChildFailure == Wrap(ErrChild, ChildErr)

\* C2: when child.Handle returns an error, Handle returns an error wrapping
\* it and prints no line for the record; the deferred function leaves the
\* buffer empty and the lock released, so a call that decodes afterwards
\* finds only bytes of its own record in the buffer, whatever the failed
\* call had written.
C2_ChildFailure ==
    /\ [](\A p \in Procs :
            /\ (res[p] # NoErr /\ res[p][1] = ErrChild)
                 => /\ pc[p] \in {"defer", "done"}
                    /\ res[p][2] = ChildErr
                    /\ LinesOf(call[p]) = {}
            /\ pc[p] = "decode" => IsPrefix(buffer[BufOf(p)], OwnBytes(p)))
    /\ [][\A p \in Procs :
            (Deferred(p) /\ res[p] = ChildFailure)
              => /\ buffer'[BufOf(p)] = <<>>
                 /\ ~mut'[MutOf(p)]
                 /\ pc'[p] = "done" /\ res'[p] = ChildFailure]_vars

\* C2 witness: a call has failed in its child and returned, and a later call
\* on the same buffer has decoded its record
C2_Witness ==
    \E p, q \in Procs :
        /\ pc[p] = "done" /\ res[p] = ChildFailure
        /\ pc[q] = "defer" /\ res[q] = NoErr /\ call[q] > call[p]
        /\ BufOf(q) = BufOf(p) /\ childAttrs[q] # EmptyMap

\* C3: a Handle call that holds the lock releases it, whichever way it
\* leaves extractChildAttrs, and a call waiting for the lock acquires it.
C3_LockReleasedAndAcquired ==
    \A p \in Procs :
        /\ (pc[p] = "lock") ~> (pc[p] = "child")
        /\ InCS(p) ~> (pc[p] \in {"print", "done"})
        /\ (pc[p] # "idle") ~> (pc[p] = "idle")

\* C3 witness: a call waits for the lock while the holder is leaving on the
\* error path of a failed decode
C3_Witness ==
    \E p, q \in Procs :
        /\ pc[p] = "lock" /\ pc[q] = "defer" /\ MutOf(p) = MutOf(q)
        /\ res[q] # NoErr /\ res[q][1] = ErrDecode /\ mut[MutOf(q)]

C5_EnabledIffAtLeastThreshold ==
    [][\A p \in Procs, h \in HandlerIds, l \in Levels :
         Enabled(p, h, l) => ((enabled' = "true") <=> (l >= threshold))]_vars

\* C5 witness: Enabled has answered false, with a derived handler at hand
\* and a threshold above the default level of the JSON handler
C5_Witness ==
    /\ enabled = "false" /\ threshold = LevelWarn /\ Len(handlers) > 1

\* the mapping a list of attributes stands for, without the keys time, level
\* and msg (of two attributes with one key the later one counts)
RECURSIVE C6_Mapping(_, _)
C6_Mapping(as, m) ==
    IF as = <<>> THEN m
    ELSE IF Head(as).key \in {"time", "level", "msg"}
    THEN C6_Mapping(Tail(as), m)
    ELSE C6_Mapping(Tail(as), (Head(as).key :> Head(as).val) @@ m)

\* the attribute block of a printed line: the line without its text and
\* colour codes
C6_Block(line) == SelectSeq(line, LAMBDA x : x.t # "txt")

\* C6: for every attribute set of a record handled by the root handler, the
\* empty one included, Handle does not fail, and the attribute block of the
\* printed line, parsed back, is the mapping of the record's attributes
\* without the keys time, level and msg.
C6_RoundTrip ==
    \A p \in Procs :
        (pc[p] = "done" /\ hnd[p] = 1)
          => /\ res[p] = NoErr
             /\ \A i \in LinesOf(call[p]) :
                   /\ Unmarshal(C6_Block(out[i].line)).err = ""
                   /\ Unmarshal(C6_Block(out[i].line)).val
                        = C6_Mapping(rec[p].attrs, EmptyMap)

\* the colour code the claim gives each of the four named severities
C7_Code(l) ==
    CASE l = LevelDebug -> "34"
      [] l = LevelInfo -> "92"
      [] l = LevelWarn -> "33"
      [] l = LevelError -> "31"

\* C7: the severity tag is the name of the level and a colon, wrapped in the
\* colour code of the severity and the reset sequence for the four named
\* levels (whose codes differ pairwise), and bare for every other level.
C7_SeverityTag ==
    /\ \A p \in Procs :
          pc[p] # "idle" =>
            LET l == rec[p].level
                name == LevelString(l) \o <<Txt(":")>>
            IN  IF l \in {LevelDebug, LevelInfo, LevelWarn, LevelError}
                THEN level[p] = <<Txt("\\033["), Txt(C7_Code(l)), Txt("m")>>
                                  \o name \o <<Txt("\\033[0m")>>
                ELSE level[p] = name
    /\ \A a, b \in {LevelDebug, LevelInfo, LevelWarn, LevelError} :
          a # b => LevelTag(a)[2] # LevelTag(b)[2]

\* C7 witness: a call with a level that is none of the four named ones runs
\* beside a call with level error
C7_Witness ==
    \E p, q \in Procs :
        /\ pc[p] # "idle" /\ rec[p].level = LevelInfo + 2
        /\ pc[q] # "idle" /\ rec[q].level = LevelError

\* the error Handle returns when the buffer cannot be decoded
DecodeFailure(e) == Wrap(ErrDecode, e)

\* C8: when the bytes in the buffer after child.Handle are no key-to-value
\* mapping, Handle returns an error wrapping the decode error, prints no
\* line for the record and leaves the buffer empty and the lock released.
C8_DecodeFailure ==
    /\ [](\A p \in Procs :
            (res[p] # NoErr /\ res[p][1] = ErrDecode)
              => /\ pc[p] \in {"defer", "done"}
                 /\ LinesOf(call[p]) = {})
    /\ [][\A p \in Procs :
            /\ (Decode(p) /\ Unmarshal(buffer[BufOf(p)]).err # "")
                  => /\ res'[p] = DecodeFailure(Unmarshal(buffer[BufOf(p)]).err)
                     /\ pc'[p] = "defer"
            /\ (Deferred(p) /\ res[p] # NoErr /\ res[p][1] = ErrDecode)
                  => /\ buffer'[BufOf(p)] = <<>>
                     /\ ~mut'[MutOf(p)]
                     /\ pc'[p] = "done" /\ res'[p] = res[p]]_vars

\* C8 witness: a call has returned the decode error; the buffer is empty and
\* the lock free
C8_Witness ==
    \E p \in Procs :
        /\ pc[p] = "done" /\ res[p] = DecodeFailure("json.SyntaxError")
        /\ buffer[BufOf(p)] = <<>> /\ ~mut[MutOf(p)]

\* C9: a Handle call that returns nil has printed exactly one line, one that
\* returns an error none; the line is the timestamp, the severity tag, the
\* message and the attribute block, in that order, with single spaces
\* between them.
C9_OneLinePerSuccess ==
    \A p \in Procs :
        /\ pc[p] \in {"lock", "child", "decode", "defer", "print"}
             => LinesOf(call[p]) = {}
        /\ pc[p] = "done"
             => /\ Cardinality(LinesOf(call[p])) = IF res[p] = NoErr THEN 1 ELSE 0
                /\ \A i \in LinesOf(call[p]) :
                      out[i].line =
                        withColor(lightGray, TimeFormat(rec[p].time))
                        \o <<Txt(" ")>> \o level[p]
                        \o <<Txt(" ")>> \o withColor(white, <<Txt(rec[p].msg)>>)
                        \o <<Txt(" ")>>
                        \o withColor(darkGray, MarshalIndent(childAttrs[p]))
                        \o <<Txt("\\n")>>

\* C9 witness: one call has returned nil and another an error
C9_Witness ==
    \E p, q \in Procs :
        /\ pc[p] = "done" /\ res[p] = NoErr /\ LinesOf(call[p]) # {}
        /\ pc[q] = "done" /\ res[q] # NoErr

\* C10: Enabled, WithAttrs and WithGroup leave the buffers and the locks as
\* they are, and a caller that is not inside Handle can always call them,
\* whether or not a Handle call holds the lock.
C10_NoLockNoBuffer ==
    /\ [][\A p \in Procs, h \in HandlerIds :
            /\ (\E l \in Levels : Enabled(p, h, l))
                  => UNCHANGED <<buffer, mut>>
            /\ (\E as \in AttrLists : WithAttrs(p, h, as))
                  => UNCHANGED <<buffer, mut>>
            /\ (\E g \in GroupNames : WithGroup(p, h, g))
                  => UNCHANGED <<buffer, mut>>]_vars
    /\ [](\A p \in Procs, h \in HandlerIds :
            pc[p] = "idle" =>
              /\ \A l \in Levels : ENABLED Enabled(p, h, l)
              /\ Len(handlers) < MaxHandlers =>
                    /\ \A as \in AttrLists : ENABLED WithAttrs(p, h, as)
                    /\ \A g \in GroupNames : ENABLED WithGroup(p, h, g))

\* C10 witness: a Handle call on a derived handler holds the lock with its
\* bytes in the buffer, and Enabled has been called
C10_Witness ==
    \E p, q \in Procs :
        /\ pc[p] = "decode" /\ hnd[p] > 1 /\ buffer[BufOf(p)] # <<>>
        /\ mut[MutOf(p)] /\ pc[q] = "idle" /\ enabled # "none"

\* C11 as the specification states it: the console write of a record's line
\* occurs while the caller still holds the lock and before the buffer is
\* reset, so a successful call that has reset the buffer has printed its line.
C11_PrintBeforeRelease ==
    \A p \in Procs :
        (pc[p] # "idle" /\ res[p] = NoErr /\ nreset[p] > 0)
            => LinesOf(call[p]) # {}

\* C11: the console write of a record's line occurs after the buffer has been
\* reset and the lock released: the caller that prints is past its critical
\* section, the step that prints touches neither the buffer nor the lock,
\* and a call whose line is on the output has reset the buffer.
C11_PrintAfterRelease ==
    /\ [](\A p \in Procs :
            LinesOf(call[p]) # {}
                => nreset[p] = 1 /\ pc[p] = "done" /\ res[p] = NoErr)
    /\ [][out' # out =>
            \E p \in Procs :
                /\ pc[p] = "print" /\ ~InCS(p) /\ nreset[p] = 1
                /\ out' = Append(out, [call |-> call[p],
                                       line |-> Line(rec[p], level[p],
                                                     childAttrs[p])])
                /\ UNCHANGED <<buffer, mut>>]_vars

\* C11 witness: a call has printed its line and not yet returned, while
\* another call on the same lock is in its critical section with its bytes
\* in the buffer
C11_Witness ==
    \E p, q \in Procs :
        /\ p # q /\ pc[p] = "done" /\ LinesOf(call[p]) # {}
        /\ nreset[p] = 1
        /\ pc[q] = "decode" /\ MutOf(q) = MutOf(p) /\ mut[MutOf(q)]
        /\ buffer[BufOf(q)] # <<>>

\* C12: the shared buffer is reset exactly once per Handle call, by the
\* caller while it holds the lock, after the decode step or after the child
\* failure that skipped it; and between a call's child write and its reset no
\* other call is in the critical section of that buffer, so every step that
\* changes the buffer is a step of the one call that holds the lock.
C12_ResetOncePerCall ==
    /\ [](\A p \in Procs :
            /\ pc[p] \in {"lock", "child", "decode", "defer"} => nreset[p] = 0
            /\ pc[p] \in {"print", "done"} => nreset[p] = 1
            /\ InCS(p) =>
                  /\ mut[MutOf(p)]
                  /\ \A q \in Procs \ {p} :
                        pc[q] # "idle" /\ BufOf(q) = BufOf(p) => ~InCS(q))
    /\ [][\A p \in Procs :
            nreset'[p] > nreset[p] =>
                /\ pc[p] = "defer" /\ mut[MutOf(p)]
                /\ nreset'[p] = nreset[p] + 1
                /\ buffer'[BufOf(p)] = <<>>
                /\ \A b \in 1..Len(buffer) :
                      b # BufOf(p) => buffer'[b] = buffer[b]]_vars
    /\ [][\A b \in 1..Len(buffer) :
            buffer'[b] # buffer[b] =>
                \E p \in Procs :
                    /\ InCS(p) /\ BufOf(p) = b /\ pc'[p] # pc[p]
                    /\ \A q \in Procs \ {p} : UNCHANGED <<pc[q], nreset[q]>>]_vars

\* C12 witness: one call has reset the buffer after its child failed and has
\* not yet returned, and the next call on the same buffer holds the lock,
\* has not reset, and finds the buffer empty
C12_Witness ==
    \E p, q \in Procs :
        /\ p # q /\ pc[p] = "done" /\ res[p] = ChildFailure /\ nreset[p] = 1
        /\ pc[q] = "child" /\ nreset[q] = 0 /\ BufOf(q) = BufOf(p)
        /\ Len(acq) = 2 /\ buffer[BufOf(q)] = <<>>

\* the line mentions the name: one of its tokens is that string
Mentions(line, name) == \E i \in 1..Len(line) : line[i].s = name

\* C13: WithAttrs and WithGroup return a new handler and leave the receiver
\* unchanged: every step keeps the child, buffer and lock of every existing
\* handler, a step that changes the handlers adds exactly the value WithAttrs
\* or WithGroup builds from a receiver, and a line printed by Handle on a
\* handler mentions an attribute key or a group name given to WithAttrs or
\* WithGroup only if that handler's own child carries it.
C13_ReceiverUnchanged ==
    /\ [][/\ Len(handlers') >= Len(handlers)
          /\ \A k \in 1..Len(handlers) : handlers'[k] = handlers[k]
          /\ handlers' # handlers =>
                /\ Len(handlers') = Len(handlers) + 1
                /\ \E h \in HandlerIds :
                      \/ \E as \in AttrLists :
                            handlers'[Len(handlers')]
                                = HandlerWithAttrs(handlers[h], as)
                      \/ \E g \in GroupNames :
                            handlers'[Len(handlers')]
                                = HandlerWithGroup(handlers[h], g)]_vars
    /\ [](\A p \in Procs :
            pc[p] = "done" =>
              \A i \in LinesOf(call[p]) :
                 /\ handlers[hnd[p]].child.pre = <<>>
                       => \A as \in AttrLists : \A j \in 1..Len(as) :
                             ~Mentions(out[i].line, as[j].key)
                 /\ handlers[hnd[p]].child.groups = <<>>
                       => \A g \in GroupNames : ~Mentions(out[i].line, g))

\* C13 witness: a handler has been derived from the root with attributes;
\* a call on the derived handler has printed a line that mentions them and a
\* call on the root a line that does not
C13_Witness ==
    \E p, q \in Procs :
        /\ Len(handlers) = 2 /\ handlers[2].child.pre # <<>>
        /\ handlers[1] = NewHandler(threshold)
        /\ pc[p] = "done" /\ hnd[p] = 2
        /\ \E i \in LinesOf(call[p]) : Mentions(out[i].line, "svc")
        /\ pc[q] = "done" /\ hnd[q] = 1 /\ call[q] > call[p]
        /\ \E i \in LinesOf(call[q]) : ~Mentions(out[i].line, "svc")

\* C14: Handle processes a record only if the handler is enabled for it: a
\* call of Handle with a record whose level is below the threshold given to
\* NewHandler prints no line and writes nothing to the buffer.
C14_HandleOnlyIfEnabled ==
    \A p \in Procs :
        (pc[p] # "idle" /\ rec[p].level < threshold)
            => /\ LinesOf(call[p]) = {}
               /\ InCS(p) => buffer[BufOf(p)] = <<>>

\* C14, the console half alone: a call of Handle with a record below the
\* threshold has printed no line when it returns
C14_NoLineBelowThreshold ==
    \A p \in Procs :
        (pc[p] = "done" /\ rec[p].level < threshold)
            => LinesOf(call[p]) = {}

\* C15: in every reachable state in which no Handle call holds the shared
\* lock the shared buffer is empty, whatever Handle calls (successful or
\* failing), Enabled, WithAttrs and WithGroup calls on the root handler and
\* its derived handlers came before.
C15_BufferEmptyWhenUnlocked ==
    /\ \A h \in HandlerIds :
          ~mut[handlers[h].mut] => buffer[handlers[h].buffer] = <<>>
    /\ \A b \in 1..Len(buffer) :
          (\A p \in Procs : InCS(p) => BufOf(p) # b) => buffer[b] = <<>>

\* C15 witness: the lock is free and the buffer empty after a successful
\* call that has printed, a call whose child failed, a derivation and an
\* Enabled call
C15_Witness ==
    /\ \A p \in Procs : pc[p] \in {"idle", "done"}
    /\ \A h \in HandlerIds :
          ~mut[handlers[h].mut] /\ buffer[handlers[h].buffer] = <<>>
    /\ Len(handlers) = 2 /\ enabled # "none" /\ Len(out) = 1 /\ Len(acq) = 2
    /\ \E p \in Procs : pc[p] = "done" /\ res[p] = ChildFailure /\ hnd[p] = 2

\* the position of call c in the order of lock acquisitions
AcqPos(c) == CHOOSE k \in 1..Len(acq) : acq[k] = c

====
